---- MODULE Spec2Model ----
(***************************************************************************)
(* Model of the MCP gateway core of Shawn-Falconbury/mcp-server:           *)
(*   - main (src/src/index.ts): boot, the MCP_TOKEN check, one shared      *)
(*     Server created by createMCPServer and handed to setupMCPRoutes;     *)
(*   - authMiddleware (src/src/auth.ts);                                   *)
(*   - setupMCPRoutes (server.ts, stored in src/src/tools/obsidian.ts      *)
(*     from line 651 on): the transports map, the app.all('/mcp') handler  *)
(*     and the app.delete('/mcp') handler registered after it;             *)
(*   - callTool (src/src/tools/index.ts).                                  *)
(*                                                                         *)
(* Strings that the code parses are sequences of chunks; a chunk is a run  *)
(* of characters without a space, or the single space " ".  A header that  *)
(* is absent (undefined) and a header that is the empty string are both    *)
(* falsy in the code's tests (!authHeader, sessionId && ..., !sessionId),  *)
(* so both are the empty sequence / the identifier 0 here.                 *)
(***************************************************************************)
EXTENDS Naturals, Integers, Sequences, FiniteSets, TLC

\* ------------------------------------------------------------------ bounds
\* Number of session identifiers crypto.randomUUID() may hand out.
MaxSessions == 2
\* Number of StreamableHTTPServerTransport objects that may be constructed.
MaxTransports == 2
\* Number of requests that may be suspended at an await at the same time.
MaxReq == 1
\* Number of registerTool calls in the registry specification.
MaxRegs == 4

\* ------------------------------------------------------------------ inputs
Methods == {"GET", "POST", "DELETE", "PUT"}

\* JSON-RPC message carried by a POST body.
Bodies == {"initialize", "tools/list", "tools/call"}

\* The configured shared secret (two chunks, no space).
Secret == <<"s", "k">>

\* Authorization header values a caller may send.
AuthHeaders ==
    { <<>>,                                   \* no header
      <<"Bearer", " ">> \o Secret,            \* the configured token
      <<"Bearer", " ", "s">>,                 \* a wrong token
      <<"Basic", " ">> \o Secret,             \* right token, wrong scheme
      <<"Bearer">>,                           \* scheme without a token
      <<"Bearer", " ">> \o Secret \o <<" ", "x">> }  \* a trailing field

\* mcp-session-id header values: 0 is "absent or empty" (falsy), n >= 1 is
\* an identifier; MaxSessions + 1 is an identifier that is never issued.
SidHeaders == 0 .. (MaxSessions + 1)

\* ------------------------------------------------------------------- state
VARIABLES
    phase,            \* main: "boot", "listening" or "exited"
    MCP_TOKEN,        \* process.env.MCP_TOKEN (<<>> when unset or empty)
    transports,       \* setupMCPRoutes: Map sessionId -> transport
    tr,               \* the transport objects ever constructed, by identity
    serverTransport,  \* the shared Server's current transport (0: none)
    issued,           \* number of identifiers randomUUID has produced
    inflight,         \* requests suspended at an await, in arrival order
    last,             \* the handler step the event loop has just run
    toolRegistry,     \* tools/index.ts: Map name -> ToolDefinition, in
                      \* insertion order
    regLog,           \* the names registerTool was called with, in call order
    called,           \* the outcome of the callTool that has just settled
    ALLOWED_PATHS,    \* process.env.ALLOWED_PATHS (<<>>: unset or empty)
    ran               \* the tool handler run that has just finished

vars == <<phase, MCP_TOKEN, transports, tr, serverTransport,
          issued, inflight, last, toolRegistry, regLog, called,
          ALLOWED_PATHS, ran>>

\* --------------------------------------------------------- authMiddleware
\* String.prototype.split(' ') on a chunk sequence: the pieces between
\* spaces, empty pieces included.
RECURSIVE SplitAcc(_, _, _, _)
SplitAcc(s, i, cur, acc) ==
    IF i > Len(s) THEN Append(acc, cur)
    ELSE IF s[i] = " " THEN SplitAcc(s, i + 1, <<>>, Append(acc, cur))
    ELSE SplitAcc(s, i + 1, Append(cur, s[i]), acc)

Split(s) == SplitAcc(s, 1, <<>>, <<>>)

\* A mutated gate that checks the scheme only.
authMiddlewareSchemeOnly(authHeader, expectedToken) ==
    IF expectedToken = <<>>
    THEN [next |-> FALSE, status |-> 500, error |-> "Server misconfigured"]
    ELSE IF authHeader = <<>>
    THEN [next |-> FALSE, status |-> 401, error |-> "Authorization required"]
    ELSE IF Split(authHeader)[1] # <<"Bearer">>
    THEN [next |-> FALSE, status |-> 401, error |-> "Invalid token"]
    ELSE [next |-> TRUE, status |-> 0, error |-> ""]

\* authMiddleware: next is TRUE iff next() is called; otherwise the
\* response that is sent.  const [type, token] = authHeader.split(' '):
\* token is undefined (never equal to the expected token) when the header
\* has a single piece.
authMiddleware(authHeader, expectedToken) ==
    IF expectedToken = <<>>
    THEN [next |-> FALSE, status |-> 500, error |-> "Server misconfigured"]
    ELSE IF authHeader = <<>>
    THEN [next |-> FALSE, status |-> 401, error |-> "Authorization required"]
    ELSE LET parts == Split(authHeader)
             type == parts[1]
             tokenOk == Len(parts) >= 2 /\ parts[2] = expectedToken
         IN IF type # <<"Bearer">> \/ ~tokenOk
            THEN [next |-> FALSE, status |-> 401, error |-> "Invalid token"]
            ELSE [next |-> TRUE, status |-> 0, error |-> ""]


\* ------------------------------------------------------- string helpers
\* Strings are sequences of chunks; each chunk stands for a run of
\* characters no other chunk shares a prefix with, " " being the
\* whitespace character.

\* String.prototype.split(sep) for a one-chunk separator.
RECURSIVE SplitByAcc(_, _, _, _, _)
SplitByAcc(s, sep, i, cur, acc) ==
    IF i > Len(s) THEN Append(acc, cur)
    ELSE IF s[i] = sep THEN SplitByAcc(s, sep, i + 1, <<>>, Append(acc, cur))
    ELSE SplitByAcc(s, sep, i + 1, Append(cur, s[i]), acc)

SplitBy(s, sep) == SplitByAcc(s, sep, 1, <<>>, <<>>)

\* String.prototype.trim.
RECURSIVE TrimStart(_)
TrimStart(s) ==
    IF s # <<>> /\ s[1] = " " THEN TrimStart(Tail(s)) ELSE s

RECURSIVE TrimEnd(_)
TrimEnd(s) ==
    IF s # <<>> /\ s[Len(s)] = " " THEN TrimEnd(SubSeq(s, 1, Len(s) - 1))
    ELSE s

Trim(s) == TrimEnd(TrimStart(s))

\* String.prototype.startsWith and String.prototype.includes.
StartsWith(s, prefix) ==
    Len(prefix) <= Len(s) /\ SubSeq(s, 1, Len(prefix)) = prefix

Includes(s, word) ==
    \E i \in 1 .. (Len(s) - Len(word) + 1) :
        SubSeq(s, i, i + Len(word) - 1) = word

\* Array.prototype.join(sep).
RECURSIVE JoinWith(_, _)
JoinWith(parts, sep) ==
    IF parts = <<>> THEN <<>>
    ELSE IF Len(parts) = 1 THEN parts[1]
    ELSE parts[1] \o <<sep>> \o JoinWith(Tail(parts), sep)

\* The result record of a tool handler run: the policy verdict, the value
\* the policy check evaluated, and the underlying operations performed,
\* each with the target string handed to it.
NoRun ==
    [tool |-> "", input |-> <<>>, allowed |-> FALSE, checked |-> <<>>,
     ops |-> <<>>, isError |-> FALSE]

\* ---------------------------------------------------------- tool registry
\* The tool names in the order the modules imported by index.ts register
\* them: filesystem, system, obsidian, database, unifi.
BootRegistrations ==
    << "read_file", "write_file", "list_directory", "search_files",
       "get_system_info", "run_command", "get_processes", "get_disk_usage",
       "list_notes", "read_note", "search_notes", "get_backlinks",
       "list_tables", "query_sqlite", "get_table_schema",
       "unifi_get_clients", "unifi_get_devices", "unifi_get_network_health",
       "unifi_get_alerts", "unifi_get_traffic_stats",
       "unifi_get_client_details", "unifi_block_client",
       "unifi_unblock_client", "unifi_reconnect_client",
       "unifi_restart_device", "unifi_set_client_name",
       "unifi_get_threat_management", "unifi_get_threat_events",
       "unifi_get_blocked_threats", "unifi_set_threat_management_mode",
       "unifi_set_ad_blocking", "unifi_set_dns_filtering",
       "unifi_get_geoip_filtering", "unifi_get_security_score" >>

\* Position of a key in the Map (0 when absent).
KeyIndex(registry, name) ==
    IF \E i \in 1 .. Len(registry) : registry[i].name = name
    THEN CHOOSE i \in 1 .. Len(registry) : registry[i].name = name
    ELSE 0

\* A mutated registerTool that appends even when the name is present.
registerToolAppend(registry, definition) == Append(registry, definition)

\* registerTool: toolRegistry.set(definition.tool.name, definition).  A
\* Map keeps a present key at its position and replaces its value; a new
\* key goes to the end.
registerTool(registry, definition) ==
    LET i == KeyIndex(registry, definition.name)
    IN IF i # 0 THEN [registry EXCEPT ![i] = definition]
       ELSE Append(registry, definition)

\* getAllTools: Array.from(toolRegistry.values()).map(def => def.tool).
getAllTools(registry) == [i \in 1 .. Len(registry) |-> registry[i].tool]

\* getToolHandler: toolRegistry.get(name)?.handler (0 is undefined).
getToolHandler(registry, name) ==
    LET i == KeyIndex(registry, name)
    IN IF i = 0 THEN 0 ELSE registry[i].handler

\* The k-th registerTool call passes its own tool descriptor and its own
\* handler: both carry the number k.
Definition(name, k) == [name |-> name, tool |-> k, handler |-> k]

\* The registry after the registrations names[1..k], made in that order.
RegisterAll(names, k) ==
    LET after[j \in 0 .. Len(names)] ==
            IF j = 0 THEN <<>>
            ELSE registerTool(after[j - 1], Definition(names[j], j))
    IN after[k]

\* The registry when main() starts: every tool module has been imported.
BootRegistry == RegisterAll(BootRegistrations, Len(BootRegistrations))

\* What await handler(args) can do: resolve to a result, resolve to an
\* error-flagged result (a denial or a caught fault), or throw / reject
\* (for instance a TypeError on a missing or wrongly typed argument).
HandlerOutcomes == {"returns", "denies", "throws"}

NoCall ==
    [name |-> "", invoked |-> 0, outcome |-> "", settled |-> "",
     isError |-> FALSE, text |-> <<>>]

\* A mutated callTool without the try / catch around the handler.
callToolNoCatch(registry, name, outcome) ==
    LET handler == getToolHandler(registry, name)
    IN IF handler = 0
       THEN [name |-> name, invoked |-> 0, outcome |-> "",
             settled |-> "resolved", isError |-> TRUE,
             text |-> <<"Unknown tool: ", name>>]
       ELSE IF outcome = "throws"
       THEN [name |-> name, invoked |-> handler, outcome |-> outcome,
             settled |-> "rejected", isError |-> FALSE, text |-> <<>>]
       ELSE [name |-> name, invoked |-> handler, outcome |-> outcome,
             settled |-> "resolved", isError |-> outcome = "denies",
             text |-> <<"result">>]

\* A mutated callTool whose unknown-tool message leaves the name out.
callToolAnonymous(registry, name, outcome) ==
    LET handler == getToolHandler(registry, name)
    IN IF handler = 0
       THEN [name |-> name, invoked |-> 0, outcome |-> "",
             settled |-> "resolved", isError |-> TRUE,
             text |-> <<"Unknown tool">>]
       ELSE IF outcome = "throws"
       THEN [name |-> name, invoked |-> handler, outcome |-> outcome,
             settled |-> "resolved", isError |-> TRUE,
             text |-> <<"Tool error: ", "message">>]
       ELSE [name |-> name, invoked |-> handler, outcome |-> outcome,
             settled |-> "resolved", isError |-> outcome = "denies",
             text |-> <<"result">>]

\* callTool(name, args): without a handler an 'Unknown tool: <name>' error
\* result; otherwise await handler(args) inside try / catch, a throw or
\* rejection becoming the error result 'Tool error: <message>'.  invoked
\* is the handler that ran (0: none); settled tells how callTool's own
\* promise ended.
callTool(registry, name, outcome) ==
    LET handler == getToolHandler(registry, name)
    IN IF handler = 0
       THEN [name |-> name, invoked |-> 0, outcome |-> "",
             settled |-> "resolved", isError |-> TRUE,
             text |-> <<"Unknown tool: ", name>>]
       ELSE IF outcome = "throws"
       THEN [name |-> name, invoked |-> handler, outcome |-> outcome,
             settled |-> "resolved", isError |-> TRUE,
             text |-> <<"Tool error: ", "message">>]
       ELSE [name |-> name, invoked |-> handler, outcome |-> outcome,
             settled |-> "resolved", isError |-> outcome = "denies",
             text |-> <<"result">>]

\* ------------------------------------------------------------------- main
\* The one Server object main builds with createMCPServer() and passes to
\* setupMCPRoutes; every server.connect(transport) is a call on it.
mcpServer == 1

NoReq == [pc |-> "idle", t |-> 0, via |-> 0, body |-> "", accepted |-> FALSE]

NoStep ==
    [step |-> "none", method |-> "", auth |-> <<>>, sid |-> 0, body |-> "",
     accepted |-> FALSE, route |-> "", branch |-> "", status |-> 0,
     text |-> "", lookup |-> FALSE, handler |-> FALSE, t |-> 0,
     newSid |-> 0, constructed |-> FALSE, connected |-> FALSE,
     mapBefore |-> <<>>]

Init ==
    /\ phase = "boot"
    /\ MCP_TOKEN \in {<<>>, Secret}
    /\ transports = <<>>
    /\ tr = <<>>
    /\ serverTransport = 0
    /\ issued = 0
    /\ inflight = <<>>
    /\ last = NoStep
    /\ regLog = BootRegistrations
    /\ toolRegistry = BootRegistry
    /\ called = NoCall
    /\ ALLOWED_PATHS = <<>>
    /\ ran = NoRun

\* A mutated main without the MCP_TOKEN check.
mainNoTokenCheck ==
    /\ phase = "boot"
    /\ \E tlsReady \in BOOLEAN :
         phase' = IF tlsReady THEN "listening" ELSE "exited"
    /\ UNCHANGED <<MCP_TOKEN, transports, tr, serverTransport, issued,
                   inflight, last, toolRegistry, regLog, called,
                   ALLOWED_PATHS, ran>>

\* main(): exit(1) without MCP_TOKEN; otherwise createApp, createMCPServer,
\* setupMCPRoutes, then listen (exit(1) when TLS is on and the certificate
\* files are missing).
main ==
    /\ phase = "boot"
    /\ \E tlsReady \in BOOLEAN :
         phase' = IF MCP_TOKEN = <<>> THEN "exited"
                  ELSE IF tlsReady THEN "listening" ELSE "exited"
    /\ UNCHANGED <<MCP_TOKEN, transports, tr, serverTransport, issued,
                   inflight, last, toolRegistry, regLog, called,
                   ALLOWED_PATHS, ran>>

\* ---------------------------------------------------------- Express routes
\* The routes of '/mcp' in registration order.
Routes ==
    << [verb |-> "ALL", handler |-> "mcp"],
       [verb |-> "DELETE", handler |-> "cleanup"] >>

Matches(route, method) == route.verb = "ALL" \/ route.verb = method

\* Express hands a request to the first matching route; a later route runs
\* only if the handler calls next(), which neither '/mcp' handler does.
RouteFor(method) ==
    LET i == CHOOSE k \in 1 .. Len(Routes) :
                 /\ Matches(Routes[k], method)
                 /\ \A j \in 1 .. (k - 1) : ~Matches(Routes[j], method)
    IN Routes[i].handler

\* ------------------------------------------------------- the transports map
MapHas(map, sessionId) == sessionId \in DOMAIN map

\* A mutated Map whose set() records nothing.
MapSetDropped(map, sessionId, t) == map

MapSet(map, sessionId, t) ==
    [k \in (DOMAIN map) \cup {sessionId} |->
        IF k = sessionId THEN t ELSE map[k]]

MapDelete(map, sessionId) ==
    [k \in (DOMAIN map) \ {sessionId} |-> map[k]]

\* sessionIdGenerator: crypto.randomUUID(), a value not produced before.
randomUUID(n) == n + 1

\* A mutated close whose onclose no longer reaches the map (the handler
\* installed by setupMCPRoutes is lost).
CloseKeepsMapping(map, trs, st, t) ==
    [map |-> map, trs |-> [trs EXCEPT ![t].closed = TRUE], st |-> 0]

\* A mutated close whose onclose clears the whole map.
CloseForgetsAll(map, trs, st, t) ==
    [map |-> <<>>, trs |-> [trs EXCEPT ![t].closed = TRUE], st |-> 0]

\* transport.close(): the transport is closed and its onclose runs, which
\* is the handler setupMCPRoutes installed (delete the transport's own
\* sessionId from the map when it has one) followed by the handler
\* server.connect chained after it (the Server forgets its transport).
Close(map, trs, st, t) ==
    LET sid == trs[t].sessionId
    IN [map |-> IF sid # 0 THEN MapDelete(map, sid) ELSE map,
        trs |-> [trs EXCEPT ![t].closed = TRUE],
        st |-> 0]

\* The outcome of one synchronous run of a handler.
Effect(map, trs, st, park, status, text, lookup, handler, t, newSid, branch) ==
    [map |-> map, trs |-> trs, st |-> st, park |-> park, status |-> status,
     text |-> text, lookup |-> lookup, handler |-> handler, t |-> t,
     newSid |-> newSid, branch |-> branch]

\* The Server answers a request through the transport it currently holds;
\* the caller receives the answer only if that is the transport its HTTP
\* request came in on.
Answered(via, t, trs) == via = t /\ ~trs[t].closed

\* transport.handleRequest(req, res, req.body) of StreamableHTTPServerTransport
\* for transport t, with the session header sid.
handleRequest(map, trs, st, t, method, sid, body, n, branch) ==
    LET initialized == trs[t].sessionId # 0
    IN
    IF method = "POST" /\ body = "initialize" THEN
        IF initialized
        THEN Effect(map, trs, st, NoReq, 400, "Server already initialized",
                    TRUE, FALSE, t, 0, branch)
        ELSE LET newSid == randomUUID(n)
                 trs2 == [trs EXCEPT ![t].sessionId = newSid]
                 \* onsessioninitialized: transports.set(newSessionId, transport)
                 map2 == MapSet(map, newSid, t)
             IN IF Answered(st, t, trs2)
                THEN Effect(map2, trs2, st, NoReq, 200, "initialized",
                            TRUE, FALSE, t, newSid, branch)
                ELSE Effect(map2, trs2, st, NoReq, 0, "unanswered",
                            TRUE, FALSE, t, newSid, branch)
    ELSE IF method = "POST" THEN
        IF ~initialized
        THEN Effect(map, trs, st, NoReq, 400, "Server not initialized",
                    TRUE, FALSE, t, 0, branch)
        ELSE IF sid # trs[t].sessionId
        THEN Effect(map, trs, st, NoReq, 404, "Session not found",
                    TRUE, FALSE, t, 0, branch)
        ELSE IF body = "tools/list"
        THEN IF Answered(st, t, trs)
             THEN Effect(map, trs, st, NoReq, 200, "tools",
                         TRUE, FALSE, t, 0, branch)
             ELSE Effect(map, trs, st, NoReq, 0, "unanswered",
                         TRUE, FALSE, t, 0, branch)
        ELSE \* tools/call: callTool starts the handler and awaits it
             Effect(map, trs, st,
                    [pc |-> "tool", t |-> t, via |-> st, body |-> body,
                     accepted |-> TRUE],
                    0, "pending", TRUE, TRUE, t, 0, branch)
    ELSE IF method = "GET" THEN
        Effect(map, trs, st, NoReq, 200, "event-stream",
               TRUE, FALSE, t, 0, branch)
    ELSE IF method = "DELETE" THEN
        LET c == Close(map, trs, st, t)
        IN Effect(c.map, c.trs, c.st, NoReq, 200, "",
                  TRUE, FALSE, t, 0, branch)
    ELSE Effect(map, trs, st, NoReq, 405, "Method not allowed",
                TRUE, FALSE, t, 0, branch)

\* ------------------------------------------------------- setupMCPRoutes
\* A mutated chain that forgets the !sessionId test of the new-session
\* branch.
mcpBranchPostUnknownIsNew(method, sessionId, map) ==
    IF sessionId # 0 /\ MapHas(map, sessionId) THEN "reuse"
    ELSE IF method = "POST" THEN "new"
    ELSE IF sessionId # 0 /\ ~MapHas(map, sessionId) THEN "invalid"
    ELSE "info"

\* A mutated chain that tests for POST before it looks the session up.
mcpBranchPostFirst(method, sessionId, map) ==
    IF method = "POST" THEN "new"
    ELSE IF sessionId # 0 /\ MapHas(map, sessionId) THEN "reuse"
    ELSE IF sessionId # 0 /\ ~MapHas(map, sessionId) THEN "invalid"
    ELSE "info"

\* The if / else-if chain of the app.all('/mcp') handler.
mcpBranch(method, sessionId, map) ==
    IF sessionId # 0 /\ MapHas(map, sessionId) THEN "reuse"
    ELSE IF method = "POST" /\ sessionId = 0 THEN "new"
    ELSE IF sessionId # 0 /\ ~MapHas(map, sessionId) THEN "invalid"
    ELSE "info"

\* app.all('/mcp', authMiddleware, async (req, res) => ...), up to its
\* first await.
mcpHandler(method, sessionId, body) ==
    LET branch == mcpBranch(method, sessionId, transports)
        \* sessionId && transports.has(sessionId): has() runs iff truthy
        looked == sessionId # 0
    IN
    IF branch = "reuse" THEN
        handleRequest(transports, tr, serverTransport, transports[sessionId],
                      method, sessionId, body, issued, branch)
    ELSE IF branch = "new" THEN
        \* new StreamableHTTPServerTransport(...); transport.onclose = ...;
        \* await server.connect(transport)
        LET trs2 == Append(tr, [sessionId |-> 0, closed |-> FALSE,
                                server |-> mcpServer])
            t == Len(trs2)
        IN Effect(transports, trs2, t,
                  [pc |-> "connected", t |-> t, via |-> 0, body |-> body,
                   accepted |-> TRUE],
                  0, "pending", looked, FALSE, t, 0, branch)
    ELSE IF branch = "invalid" THEN
        Effect(transports, tr, serverTransport, NoReq, 400,
               "Invalid session ID", looked, FALSE, 0, 0, branch)
    ELSE
        \* { name: 'pi-mcp-server', version: '1.0.0',
        \*   transport: 'streamable-http' }
        Effect(transports, tr, serverTransport, NoReq, 200,
               "pi-mcp-server 1.0.0 streamable-http", looked, FALSE, 0, 0,
               branch)

\* app.delete('/mcp', authMiddleware, async (req, res) => ...).
cleanupHandler(sessionId) ==
    IF sessionId # 0 /\ MapHas(transports, sessionId)
    THEN LET t == transports[sessionId]
             c == Close(transports, tr, serverTransport, t)
         IN Effect(MapDelete(c.map, sessionId), c.trs, c.st, NoReq, 200,
                   "closed", TRUE, FALSE, t, 0, "cleanup")
    ELSE Effect(transports, tr, serverTransport, NoReq, 404,
                "Session not found", sessionId # 0, FALSE, 0, 0, "cleanup")

\* A mutated chain whose route handlers run without the gate's consent.
dispatchUngated(method, auth, sessionId, body) ==
    LET a == authMiddleware(auth, MCP_TOKEN)
        route == RouteFor(method)
    IN [accepted |-> a.next, route |-> route,
        e |-> IF route = "mcp" THEN mcpHandler(method, sessionId, body)
              ELSE cleanupHandler(sessionId)]

\* Express on a request to '/mcp': the first matching route, its
\* authMiddleware, and the route handler only if the middleware called
\* next().
dispatch(method, auth, sessionId, body) ==
    LET a == authMiddleware(auth, MCP_TOKEN)
        route == RouteFor(method)
    IN [accepted |-> a.next, route |-> route,
        e |-> IF ~a.next
              THEN Effect(transports, tr, serverTransport, NoReq, a.status,
                          a.error, FALSE, FALSE, 0, 0, "")
              ELSE IF route = "mcp" THEN mcpHandler(method, sessionId, body)
              ELSE cleanupHandler(sessionId)]

\* ----------------------------------------------------------------- actions
\* Node runs one callback at a time, to its end or to its next await:
\* a handler step starts only when the event loop is idle.
LoopIdle == last.step = "none"

Slots == 1 .. Len(inflight)

PendingInits ==
    Cardinality({r \in Slots : inflight[r].pc = "connected"
                               /\ inflight[r].body = "initialize"})

\* The suspended requests without the r-th, which has run on.
Without(r) ==
    [i \in 1 .. (Len(inflight) - 1) |->
        IF i < r THEN inflight[i] ELSE inflight[i + 1]]

\* An HTTP request to '/mcp' arrives and runs to its response or to its
\* first await.
Receive(method, auth, sessionId, body) ==
    /\ phase = "listening"
    /\ LoopIdle
    /\ \E d \in {dispatch(method, auth, sessionId, body)} :
       LET e == d.e
       IN /\ Len(e.trs) <= MaxTransports
          /\ e.park.pc # "idle" => Len(inflight) < MaxReq
          /\ (e.park.pc = "connected" /\ body = "initialize")
                => issued + PendingInits < MaxSessions
          /\ transports' = e.map
          /\ tr' = e.trs
          /\ serverTransport' = e.st
          /\ inflight' =
                IF e.park.pc = "idle" THEN inflight
                ELSE Append(inflight, [e.park EXCEPT !.accepted = d.accepted])
          /\ last' = [step |-> "recv", method |-> method, auth |-> auth,
                      sid |-> sessionId, body |-> body,
                      accepted |-> d.accepted, route |-> d.route,
                      branch |-> e.branch, status |-> e.status,
                      text |-> e.text, lookup |-> e.lookup,
                      handler |-> e.handler, t |-> e.t, newSid |-> e.newSid,
                      constructed |-> Len(e.trs) > Len(tr),
                      connected |-> Len(e.trs) > Len(tr),
                      mapBefore |-> transports]
    /\ UNCHANGED <<phase, MCP_TOKEN, issued, toolRegistry, regLog, called,
                   ALLOWED_PATHS, ran>>

\* The new-session branch resumes after await server.connect(transport):
\* await transport.handleRequest(req, res, req.body).
Resume(r) ==
    /\ inflight[r].pc = "connected"
    /\ LoopIdle
    /\ \E e \in {handleRequest(transports, tr, serverTransport,
                                inflight[r].t, "POST", 0, inflight[r].body,
                                issued, "new")} :
       LET q == inflight[r]
       IN /\ transports' = e.map
          /\ tr' = e.trs
          /\ serverTransport' = e.st
          /\ issued' = IF e.newSid # 0 THEN issued + 1 ELSE issued
          /\ inflight' = Without(r)
          /\ last' = [step |-> "resume", method |-> "POST", auth |-> <<>>,
                      sid |-> 0, body |-> q.body, accepted |-> q.accepted,
                      route |-> "mcp", branch |-> e.branch,
                      status |-> e.status, text |-> e.text,
                      lookup |-> FALSE, handler |-> e.handler, t |-> e.t,
                      newSid |-> e.newSid, constructed |-> FALSE,
                      connected |-> FALSE, mapBefore |-> transports]
    /\ UNCHANGED <<phase, MCP_TOKEN, toolRegistry, regLog, called,
                   ALLOWED_PATHS, ran>>

\* Names a tools/call request may carry: registered ones and one that is
\* not registered.
RequestedNames == {"read_file", "run_command", "query_sqlite", "no_such_tool"}

\* The CallToolRequestSchema handler: return await callTool(name, args ?? {}).
\* The call settles and the Server sends the result through the transport
\* it held when the call was dispatched.  The name and the arguments came
\* with the suspended request; what the arguments make the handler do is
\* the outcome.
ToolReturn(r, name, outcome) ==
    /\ inflight[r].pc = "tool"
    /\ LoopIdle
    /\ \E result \in {callTool(toolRegistry, name, outcome)} :
       LET q == inflight[r]
           ok == Answered(q.via, q.t, tr) /\ result.settled = "resolved"
       IN /\ inflight' = Without(r)
          /\ called' = result
          /\ last' = [step |-> "toolret", method |-> "POST", auth |-> <<>>,
                      sid |-> tr[q.t].sessionId, body |-> q.body,
                      accepted |-> q.accepted, route |-> "mcp",
                      branch |-> "reuse",
                      status |-> IF ok THEN 200 ELSE 0,
                      text |-> IF ~ok THEN "unanswered"
                               ELSE IF result.isError THEN "error result"
                               ELSE "result",
                      lookup |-> FALSE, handler |-> FALSE, t |-> q.t,
                      newSid |-> 0, constructed |-> FALSE,
                      connected |-> FALSE, mapBefore |-> transports]
    /\ UNCHANGED <<phase, MCP_TOKEN, transports, tr, serverTransport, issued,
                   toolRegistry, regLog, ALLOWED_PATHS, ran>>

\* The step's callback has returned; control is back in the event loop.
Yield ==
    /\ ~LoopIdle
    /\ last' = NoStep
    /\ called' = NoCall
    /\ UNCHANGED <<phase, MCP_TOKEN, transports, tr, serverTransport, issued,
                   inflight, toolRegistry, regLog, ALLOWED_PATHS, ran>>

\* Authorization headers sent to '/health': none, the configured token,
\* a wrong token.
HealthAuths == {<<>>, <<"Bearer", " ">> \o Secret, <<"Bearer", " ", "s">>}

\* A mutated app with '/health' registered behind authMiddleware.
healthHandlerGated(method, auth) ==
    LET a == authMiddleware(auth, MCP_TOKEN)
    IN IF method # "GET" THEN [status |-> 404, text |-> "Not Found"]
       ELSE IF ~a.next THEN [status |-> a.status, text |-> a.error]
       ELSE [status |-> 200, text |-> "ok"]

\* createApp: app.get('/health', ...) answers { status: 'ok', timestamp }
\* without any middleware of this program before it; another method
\* matches no route and Express answers 404.
healthHandler(method, auth) ==
    IF method # "GET" THEN [status |-> 404, text |-> "Not Found"]
    ELSE [status |-> 200, text |-> "ok"]

\* An HTTP request to '/health' arrives and is answered.
Health(method, auth) ==
    /\ phase = "listening"
    /\ LoopIdle
    /\ \E h \in {healthHandler(method, auth)} :
         last' = [step |-> "health", method |-> method, auth |-> auth,
                  sid |-> 0, body |-> "", accepted |-> FALSE,
                  route |-> "health", branch |-> "", status |-> h.status,
                  text |-> h.text, lookup |-> FALSE, handler |-> TRUE,
                  t |-> 0, newSid |-> 0, constructed |-> FALSE,
                  connected |-> FALSE, mapBefore |-> transports]
    /\ UNCHANGED <<phase, MCP_TOKEN, transports, tr, serverTransport, issued,
                   inflight, toolRegistry, regLog, called, ALLOWED_PATHS, ran>>

Request ==
    \E method \in Methods, auth \in AuthHeaders, sessionId \in SidHeaders :
        \E body \in (IF method = "POST" THEN Bodies ELSE {""}) :
            Receive(method, auth, sessionId, body)

Next ==
    \/ main
    \/ Request
    \/ \E method \in {"GET", "POST"}, auth \in HealthAuths : Health(method, auth)
    \/ \E r \in Slots : Resume(r)
    \/ Yield
    \/ \E r \in Slots, name \in RequestedNames, outcome \in HandlerOutcomes :
          ToolReturn(r, name, outcome)

Spec == Init /\ [][Next]_vars

\* ------------------------------------------------------------ observations
Stepped == last.step = "recv"

MapUnchanged == transports = last.mapBefore

\* Identifiers of sessions whose transport has been closed.
ClosedIds ==
    {tr[t].sessionId : t \in {u \in 1 .. Len(tr) :
                                 tr[u].closed /\ tr[u].sessionId # 0}}

InfoText == "pi-mcp-server 1.0.0 streamable-http"

\* The credential a header presents: the run of chunks after the scheme
\* and one space, up to the next space (none without scheme and space).
PresentedToken(h) ==
    IF Len(h) < 3 \/ h[2] # " " THEN <<>>
    ELSE LET rest == SubSeq(h, 3, Len(h))
             n == CHOOSE k \in 0 .. Len(rest) :
                      /\ \A i \in 1 .. k : rest[i] # " "
                      /\ (k = Len(rest) \/ rest[k + 1] = " ")
         IN SubSeq(rest, 1, n)

\* ------------------------------------------------------------------ claims

\* C1: on the protocol endpoint, whatever the HTTP method, no session
\* lookup, no transport construction, no session creation and no tool
\* handler invocation happens in a request the authentication gate did not
\* accept; such a request leaves the session map as it was, and every
\* request suspended inside a handler is one the gate accepted.
C1_NothingBeforeAuth ==
    /\ (last.step \notin {"none", "health"} /\ ~last.accepted) =>
          /\ ~last.lookup
          /\ ~last.constructed
          /\ ~last.connected
          /\ ~last.handler
          /\ last.t = 0
          /\ last.newSid = 0
          /\ MapUnchanged
          /\ last.status \in {401, 500}
    /\ \A r \in Slots : inflight[r].accepted

\* A rejected teardown request that names a live session.
C1_Witness ==
    /\ Stepped /\ ~last.accepted
    /\ last.method = "DELETE"
    /\ last.sid \in DOMAIN transports

\* C2: the gate accepts the request whose header is "Bearer " followed by
\* exactly the configured token, rejects every request without a header,
\* and rejects every request whose presented token differs from the
\* configured one (an accepted request is a Bearer request presenting the
\* configured token).
C2_AuthDecision ==
    Stepped =>
        /\ last.auth = <<"Bearer", " ">> \o MCP_TOKEN => last.accepted
        /\ last.auth = <<>> => ~last.accepted
        /\ PresentedToken(last.auth) # MCP_TOKEN => ~last.accepted
        /\ last.accepted => last.auth[1] = "Bearer"

\* The configured token has been accepted and a session created with it.
C2_Witness ==
    /\ Stepped /\ last.accepted
    /\ last.auth = <<"Bearer", " ">> \o MCP_TOKEN
    /\ last.branch = "new"

\* C3: a request rejected for a wrong credential receives the very
\* response (status and body) that a request without any Authorization
\* header receives, so the response does not tell which check failed.
C3_FailuresIndistinguishable ==
    (Stepped /\ ~last.accepted /\ last.auth # <<>>) =>
        LET none == authMiddleware(<<>>, MCP_TOKEN)
        IN /\ last.status = none.status
           /\ last.text = none.error

\* C4: a request whose session identifier is not in the session map gets a
\* failure response (400 'Invalid session ID' once authenticated), for
\* every method, POST included: the map is unchanged, no transport is
\* constructed and no identifier is issued.
C4_UnknownSessionNotCreated ==
    (Stepped /\ last.sid # 0 /\ last.sid \notin DOMAIN last.mapBefore) =>
        /\ last.status >= 400
        /\ last.accepted =>
              (last.status = 400 /\ last.text = "Invalid session ID")
        /\ MapUnchanged
        /\ ~last.constructed
        /\ last.newSid = 0
        /\ last.t = 0

\* An authenticated session-initiating POST that names an unknown session
\* while another session is live.
C4_Witness ==
    /\ Stepped /\ last.accepted
    /\ last.method = "POST" /\ last.body = "initialize"
    /\ last.sid # 0 /\ last.sid \notin DOMAIN last.mapBefore
    /\ DOMAIN transports # {}

\* C5: once a teardown request for a live session has completed, the
\* identifier is not in the session map, in that state and in every later
\* one, and a later request bearing it is answered with a failure, changes
\* nothing in the map and issues no identifier.
C5_TeardownForgets ==
    /\ ClosedIds \cap DOMAIN transports = {}
    /\ (Stepped /\ last.accepted /\ last.method = "DELETE"
          /\ last.sid \in DOMAIN last.mapBefore) =>
             (last.sid \notin DOMAIN transports /\ last.sid \in ClosedIds)
    /\ (Stepped /\ last.sid \in ClosedIds
          /\ last.sid \notin DOMAIN last.mapBefore) =>
             /\ last.status >= 400
             /\ MapUnchanged
             /\ last.newSid = 0
             /\ ~last.constructed

\* An authenticated POST that bears the identifier of a torn-down session.
C5_Witness ==
    /\ Stepped /\ last.accepted
    /\ last.method = "POST"
    /\ last.sid \in ClosedIds
    /\ last.sid \notin DOMAIN last.mapBefore

\* C6: an authenticated teardown (DELETE) request naming an identifier
\* that is already closed or was never issued is answered 404 'Session not
\* found' and changes no mapping.
C6_TeardownNotFound ==
    (Stepped /\ last.accepted /\ last.method = "DELETE"
       /\ last.sid # 0 /\ last.sid \notin DOMAIN last.mapBefore) =>
          /\ last.status = 404
          /\ last.text = "Session not found"
          /\ MapUnchanged

\* C7: no protocol engine is connected to the transports of two different
\* live sessions, and every live identifier maps to one open transport
\* whose own identifier it is.
C7_EnginePerSession ==
    /\ \A s1, s2 \in DOMAIN transports :
          s1 # s2 => tr[transports[s1]].server # tr[transports[s2]].server
    /\ \A s \in DOMAIN transports :
          /\ ~tr[transports[s]].closed
          /\ tr[transports[s]].sessionId = s

\* C8: identifiers issued to different sessions differ; a teardown leaves
\* every other session's mapping as it was; and once some session has been
\* torn down, a request of another live session is still dispatched and
\* answered.
C8_SessionsIndependent ==
    /\ \A t1, t2 \in 1 .. Len(tr) :
          (t1 # t2 /\ tr[t1].sessionId # 0) =>
              tr[t1].sessionId # tr[t2].sessionId
    /\ (Stepped /\ last.accepted /\ last.method = "DELETE"
          /\ last.sid \in DOMAIN last.mapBefore) =>
             \A s \in (DOMAIN last.mapBefore) \ {last.sid} :
                 s \in DOMAIN transports /\ transports[s] = last.mapBefore[s]
    /\ (Stepped /\ last.accepted /\ last.method = "POST"
          /\ last.body = "tools/list" /\ last.sid \in DOMAIN last.mapBefore
          /\ ClosedIds # {}) =>
             last.status = 200

\* C9: an authenticated request bearing an identifier that is in the
\* session map is handled by the transport recorded under it, the one that
\* took that identifier when the session was created; no transport is
\* constructed, no identifier is issued, and no identifier is bound to
\* another transport.
C9_RoutedToRecorded ==
    (Stepped /\ last.accepted /\ last.sid # 0
       /\ last.sid \in DOMAIN last.mapBefore) =>
          /\ last.branch = "reuse"
          /\ last.t = last.mapBefore[last.sid]
          /\ tr[last.t].sessionId = last.sid
          /\ ~last.constructed
          /\ last.newSid = 0
          /\ \A s \in DOMAIN transports :
                s \in DOMAIN last.mapBefore
                   /\ transports[s] = last.mapBefore[s]

\* A tool call routed to the second of two live sessions.
C9_Witness ==
    /\ Stepped /\ last.accepted
    /\ last.method = "POST" /\ last.body = "tools/call"
    /\ Cardinality(DOMAIN last.mapBefore) = 2
    /\ last.sid \in DOMAIN last.mapBefore
    /\ last.handler

\* C10: an authenticated request without a session identifier that does
\* not initiate a session (anything but a POST carrying initialize) is
\* answered with the static identity information, constructs no transport,
\* connects nothing to the engine and leaves the session map unchanged.
C10_ProbeCreatesNothing ==
    (Stepped /\ last.accepted /\ last.sid = 0
       /\ ~(last.method = "POST" /\ last.body = "initialize")) =>
          /\ last.status = 200
          /\ last.text = InfoText
          /\ ~last.constructed
          /\ ~last.connected
          /\ MapUnchanged

\* C11: an authenticated DELETE to the protocol endpoint that carries no
\* session identifier is answered with a client error (a 4xx status),
\* never with a success.
C11_TeardownNeedsIdentifier ==
    (Stepped /\ last.accepted /\ last.method = "DELETE" /\ last.sid = 0) =>
        (last.status >= 400 /\ last.status < 500)


\* The step in which a tools/call settles.
ToolSettled == last.step = "toolret"

\* C12: when the handler of a registered tool throws or its promise rejects,
\* callTool still resolves, and to an error-flagged result; the step removes
\* no entry from the session map and the process keeps serving.
C12_FaultBecomesErrorResult ==
    (ToolSettled /\ called.invoked # 0) =>
        /\ called.settled = "resolved"
        /\ (called.outcome = "throws" => called.isError)
        /\ MapUnchanged
        /\ phase = "listening"

\* A registered tool's handler threw while its session was in the map.
C12_Witness ==
    /\ ToolSettled
    /\ called.invoked # 0
    /\ called.outcome = "throws"
    /\ called.isError
    /\ MapHas(transports, last.sid)


\* ------------------------------------------- registry specification
\* The registry on its own: registerTool calls as the tool modules load,
\* interleaved with callTool calls, starting from the empty Map.
ToolNames == {"read_file", "run_command", "query_sqlite"}

RegInit ==
    /\ phase = "boot"
    /\ MCP_TOKEN = Secret
    /\ transports = <<>>
    /\ tr = <<>>
    /\ serverTransport = 0
    /\ issued = 0
    /\ inflight = <<>>
    /\ last = NoStep
    /\ regLog = <<>>
    /\ toolRegistry = <<>>
    /\ called = NoCall
    /\ ALLOWED_PATHS = <<>>
    /\ ran = NoRun

\* registerTool(definition) with a fresh descriptor and handler.
Register(name) ==
    /\ Len(regLog) < MaxRegs
    /\ regLog' = Append(regLog, name)
    /\ toolRegistry' =
           registerTool(toolRegistry, Definition(name, Len(regLog) + 1))
    /\ called' = NoCall
    /\ UNCHANGED <<phase, MCP_TOKEN, transports, tr, serverTransport, issued,
                   inflight, last, ALLOWED_PATHS, ran>>

\* await callTool(name, args).
Call(name, outcome) ==
    /\ called' = callTool(toolRegistry, name, outcome)
    /\ UNCHANGED <<phase, MCP_TOKEN, transports, tr, serverTransport, issued,
                   inflight, last, toolRegistry, regLog, ALLOWED_PATHS, ran>>

RegNext ==
    \/ \E name \in ToolNames : Register(name)
    \/ \E name \in RequestedNames, outcome \in HandlerOutcomes :
          Call(name, outcome)

RegSpec == RegInit /\ [][RegNext]_vars

\* A callTool has settled.
CallSettled == called.name # ""

Contains(text, chunk) == \E i \in 1 .. Len(text) : text[i] = chunk

\* C13: callTool with a name that is not in the registry runs no handler
\* and resolves (never throws) to a result with isError true whose text
\* contains the requested name.
C13_UnknownToolIsErrorResult ==
    (CallSettled /\ KeyIndex(toolRegistry, called.name) = 0) =>
        /\ called.invoked = 0
        /\ called.settled = "resolved"
        /\ called.isError
        /\ Contains(called.text, called.name)

\* A name other tools are registered beside, but not itself, was called.
C13_Witness ==
    /\ CallSettled
    /\ toolRegistry # <<>>
    /\ KeyIndex(toolRegistry, called.name) = 0
    /\ called.isError
    /\ Contains(called.text, called.name)


\* The registrations of the log that are the first under their name, and
\* the number of the last registration under a name.
IsFirst(log, i) == \A j \in 1 .. (i - 1) : log[j] # log[i]
LastIndex(log, name) ==
    CHOOSE i \in 1 .. Len(log) :
        /\ log[i] = name
        /\ \A j \in (i + 1) .. Len(log) : log[j] # name

\* How many distinct names log[1..i] holds: the place of log[i]'s name in
\* the order the names were first registered.
Rank(log, i) == Cardinality({j \in 1 .. i : IsFirst(log, j)})

\* C20: after any sequence of registerTool calls getAllTools lists exactly
\* one descriptor per distinct name, the names in the order they were first
\* registered, each descriptor being the one of the name's most recent
\* registration; and the handler callTool invokes for a registered name is
\* the one of its most recent registration.
C20_RegistryLastWins ==
    LET listed == getAllTools(toolRegistry)
    IN /\ Len(listed) = Cardinality({regLog[i] : i \in 1 .. Len(regLog)})
       /\ \A i \in 1 .. Len(regLog) :
             IsFirst(regLog, i) =>
                 /\ toolRegistry[Rank(regLog, i)].name = regLog[i]
                 /\ listed[Rank(regLog, i)] = LastIndex(regLog, regLog[i])
       /\ (CallSettled /\ \E i \in 1 .. Len(regLog) : regLog[i] = called.name)
             => called.invoked = LastIndex(regLog, called.name)

\* A name was registered, another after it, then the first again, and the
\* first name was called.
C20_Witness ==
    /\ Len(regLog) >= 3
    /\ regLog[1] = regLog[3]
    /\ regLog[2] # regLog[1]
    /\ CallSettled
    /\ called.name = regLog[1]
    /\ called.invoked >= 3
    /\ Len(getAllTools(toolRegistry)) < Len(regLog)


\* ------------------------------------------------------- filesystem tools
\* Longest generated candidate path, in chunks.
MaxPathLen == 4

\* process.cwd().
cwd == <<"/", "app">>

\* Drop '' and '.' segments; a '..' segment removes the segment before it
\* (at the root there is none to remove).
RECURSIVE normalizeSegments(_, _, _)
normalizeSegments(segs, i, out) ==
    IF i > Len(segs) THEN out
    ELSE IF segs[i] = <<>> \/ segs[i] = <<".">>
    THEN normalizeSegments(segs, i + 1, out)
    ELSE IF segs[i] = <<".", ".">>
    THEN normalizeSegments(segs, i + 1,
                           IF out = <<>> THEN out
                           ELSE SubSeq(out, 1, Len(out) - 1))
    ELSE normalizeSegments(segs, i + 1, Append(out, segs[i]))

\* path.resolve(p): an absolute path as it is, a relative one under the
\* working directory; normalised, without trailing slash.
pathResolve(p) ==
    LET abs == IF p # <<>> /\ p[1] = "/" THEN p ELSE cwd \o <<"/">> \o p
    IN <<"/">> \o JoinWith(normalizeSegments(SplitBy(abs, "/"), 1, <<>>), "/")

\* path.dirname(p): the text before the last slash that follows a
\* non-slash character, without normalisation.
pathDirname(p) ==
    LET hasRoot == p # <<>> /\ p[1] = "/"
        ends == {i \in 2 .. Len(p) :
                    /\ p[i] = "/"
                    /\ \E j \in (i + 1) .. Len(p) : p[j] # "/"}
    IN IF ends = {} THEN (IF hasRoot THEN <<"/">> ELSE <<".">>)
       ELSE LET end == CHOOSE i \in ends : \A k \in ends : k <= i
            IN IF hasRoot /\ end = 2 THEN <<"/", "/">>
               ELSE SubSeq(p, 1, end - 1)

\* path.join(dir, name) for a directory entry name: the normalised
\* dir + '/' + name; a relative result keeps its leading '..' segments.
RECURSIVE normalizeRelative(_, _, _)
normalizeRelative(segs, i, out) ==
    IF i > Len(segs) THEN out
    ELSE IF segs[i] = <<>> \/ segs[i] = <<".">>
    THEN normalizeRelative(segs, i + 1, out)
    ELSE IF segs[i] = <<".", ".">> /\ out # <<>>
                                  /\ out[Len(out)] # <<".", ".">>
    THEN normalizeRelative(segs, i + 1, SubSeq(out, 1, Len(out) - 1))
    ELSE normalizeRelative(segs, i + 1, Append(out, segs[i]))

pathJoin(dir, name) ==
    LET joined == IF dir = <<>> THEN name ELSE dir \o <<"/">> \o name
        segs == SplitBy(joined, "/")
    IN IF joined[1] = "/"
       THEN <<"/">> \o JoinWith(normalizeSegments(segs, 1, <<>>), "/")
       ELSE JoinWith(normalizeRelative(segs, 1, <<>>), "/")

\* A mutated getAllowedPaths without filter(Boolean).
getAllowedPathsUnfiltered(paths) ==
    LET parts == SplitBy(paths, ",")
    IN [i \in 1 .. Len(parts) |-> Trim(parts[i])]

\* getAllowedPaths: (ALLOWED_PATHS || '').split(',').map(trim).filter(Boolean).
getAllowedPaths(paths) ==
    LET parts == SplitBy(paths, ",")
        trimmed == [i \in 1 .. Len(parts) |-> Trim(parts[i])]
    IN SelectSeq(trimmed, LAMBDA x : x # <<>>)

\* A mutated isPathAllowed that compares the raw strings.
isPathAllowedRaw(targetPath, paths) ==
    LET allowed == getAllowedPaths(paths)
    IN IF Len(allowed) = 0 THEN FALSE
       ELSE \E i \in 1 .. Len(allowed) : StartsWith(targetPath, allowed[i])

\* isPathAllowed: false on an empty allowlist; otherwise whether the
\* resolved target starts with the resolved form of some entry.
isPathAllowed(targetPath, paths) ==
    LET allowed == getAllowedPaths(paths)
    IN IF Len(allowed) = 0 THEN FALSE
       ELSE \E i \in 1 .. Len(allowed) :
               StartsWith(pathResolve(targetPath), pathResolve(allowed[i]))

\* The values of ALLOWED_PATHS: unset or empty, only separators and
\* whitespace, and lists with absolute, padded, relative and '..' entries.
AllowedPathsValues ==
    { <<>>, <<",">>, <<" ", ",", " ", ",">>,
      <<"/", "data">>,
      <<" ", "/", "data", " ", ",", "/", "etc", "/">>,
      <<"data">>,
      <<"/", "data", "/", ".", ".", "/", "etc">> }

\* Candidate paths: every chunk string up to MaxPathLen, and longer ones
\* with nested, '.', and '..' segments.
PathChunks == {"/", ".", "data", "etc"}

CandidatePaths ==
    UNION {[1 .. n -> PathChunks] : n \in 0 .. MaxPathLen}
    \cup { <<"/", "data", "/", "sub", "/", "file.txt">>,
           <<"/", "etc", "/", "passwd">>,
           <<"/", "data", "/", ".", ".", "/", "etc", "/", "passwd">>,
           <<"/", "data", "/", ".", "/", "file.txt">>,
           <<"/", "data", "/", "link", "/", ".", ".", "/", "file.txt">>,
           <<"/", "data", "2", "/", "file.txt">>,
           <<"/", "data", "base", "/", "x">>,
           <<"/", "data", "-private", "/", "x">> }

\* read_file: deny unless isPathAllowed(filePath); then fs.readFile(filePath).
read_file(filePath, fsOk) ==
    /\ phase = "listening"
    /\ ran = NoRun
    /\ \E allowed \in {isPathAllowed(filePath, ALLOWED_PATHS)} :
         ran' = [tool |-> "read_file", input |-> filePath,
                 allowed |-> allowed, checked |-> pathResolve(filePath),
                 ops |-> IF allowed
                         THEN <<[op |-> "readFile", target |-> filePath]>>
                         ELSE <<>>,
                 isError |-> ~allowed \/ ~fsOk]
    /\ UNCHANGED <<phase, MCP_TOKEN, transports, tr, serverTransport, issued,
                   inflight, last, toolRegistry, regLog, called,
                   ALLOWED_PATHS>>

\* write_file: deny unless isPathAllowed(filePath); then
\* fs.mkdir(path.dirname(filePath)) and fs.writeFile(filePath, content);
\* a failing mkdir skips the write.
write_file(filePath, mkdirOk, fsOk) ==
    /\ phase = "listening"
    /\ ran = NoRun
    /\ \E allowed \in {isPathAllowed(filePath, ALLOWED_PATHS)} :
         ran' = [tool |-> "write_file", input |-> filePath,
                 allowed |-> allowed, checked |-> pathResolve(filePath),
                 ops |-> IF ~allowed THEN <<>>
                         ELSE <<[op |-> "mkdir",
                                 target |-> pathDirname(filePath)]>>
                              \o (IF mkdirOk
                                  THEN <<[op |-> "writeFile",
                                          target |-> filePath]>>
                                  ELSE <<>>),
                 isError |-> ~allowed \/ ~mkdirOk \/ ~fsOk]
    /\ UNCHANGED <<phase, MCP_TOKEN, transports, tr, serverTransport, issued,
                   inflight, last, toolRegistry, regLog, called,
                   ALLOWED_PATHS>>

\* list_directory: deny unless isPathAllowed(dirPath); then
\* fs.readdir(dirPath).
list_directory(dirPath, fsOk) ==
    /\ phase = "listening"
    /\ ran = NoRun
    /\ \E allowed \in {isPathAllowed(dirPath, ALLOWED_PATHS)} :
         ran' = [tool |-> "list_directory", input |-> dirPath,
                 allowed |-> allowed, checked |-> pathResolve(dirPath),
                 ops |-> IF allowed
                         THEN <<[op |-> "readdir", target |-> dirPath]>>
                         ELSE <<>>,
                 isError |-> ~allowed \/ ~fsOk]
    /\ UNCHANGED <<phase, MCP_TOKEN, transports, tr, serverTransport, issued,
                   inflight, last, toolRegistry, regLog, called,
                   ALLOWED_PATHS>>

\* search_files: deny unless isPathAllowed(searchPath); then search(dir,
\* depth) reads searchPath at depth 0 and each directory entry
\* path.join(dir, name) one level deeper while depth <= maxDepth, where
\* maxDepth = args.maxDepth || 5.  subdirs are the directories found in
\* searchPath; they hold no directories themselves.
search_files(searchPath, maxDepthArg, subdirs) ==
    /\ phase = "listening"
    /\ ran = NoRun
    /\ \E allowed \in {isPathAllowed(searchPath, ALLOWED_PATHS)} :
         LET maxDepth == IF maxDepthArg = 0 THEN 5 ELSE maxDepthArg
             below == IF 1 > maxDepth THEN <<>>
                      ELSE [i \in 1 .. Len(subdirs) |->
                               [op |-> "readdir",
                                target |-> pathJoin(searchPath, subdirs[i])]]
         IN ran' = [tool |-> "search_files", input |-> searchPath,
                    allowed |-> allowed, checked |-> pathResolve(searchPath),
                    ops |-> IF ~allowed \/ 0 > maxDepth THEN <<>>
                            ELSE <<[op |-> "readdir",
                                    target |-> searchPath]>> \o below,
                    isError |-> ~allowed]
    /\ UNCHANGED <<phase, MCP_TOKEN, transports, tr, serverTransport, issued,
                   inflight, last, toolRegistry, regLog, called,
                   ALLOWED_PATHS>>


\* ----------------------------------------------------------- system tools
\* Longest generated command string, in chunks.
MaxCommandLen == 3

ALLOWED_COMMANDS ==
    { <<"uptime">>, <<"hostname">>, <<"df">>, <<"free">>, <<"top">>,
      <<"ps">>, <<"who">>, <<"date">>, <<"uname">>, <<"lsblk">>,
      <<"lscpu">>, <<"lsmem">>, <<"vcgencmd">>,
      <<"cat", " ", "/proc/cpuinfo">>, <<"cat", " ", "/proc/meminfo">>,
      <<"cat", " ", "/sys/class/thermal/thermal_zone0/temp">> }

\* A mutated isCommandAllowed that accepts any whitelisted prefix.
isCommandAllowedPrefix(cmd) ==
    LET trimmed == Trim(cmd)
    IN \/ trimmed \in ALLOWED_COMMANDS
       \/ \E allowed \in ALLOWED_COMMANDS : StartsWith(trimmed, allowed)

\* isCommandAllowed: the trimmed command is a whitelist entry or starts
\* with an entry and a space.
isCommandAllowed(cmd) ==
    LET trimmed == Trim(cmd)
    IN \/ trimmed \in ALLOWED_COMMANDS
       \/ \E allowed \in ALLOWED_COMMANDS :
             StartsWith(trimmed, allowed \o <<" ">>)

CommandChunks == {"df", "uptime", " ", "x", "-h"}

CandidateCommands ==
    UNION {[1 .. n -> CommandChunks] : n \in 0 .. MaxCommandLen}
    \cup { <<"rm", " ", "-rf", " ", "/">>,
           <<" ", "df", " ", "-h", " ">>,
           <<"cat", " ", "/proc/cpuinfo">>,
           <<"cat", " ", "/etc/passwd">>,
           <<"df", " ", "-h", ";", " ", "rm", " ", "-rf", " ", "/">> }

\* How a child process started by exec(command, { timeout }) ends: it
\* exits with status 0, it fails, or the timeout expires, the child is
\* killed and the promise rejects.
ExecOutcomes == {"exits", "fails", "timeout"}

\* run_command: deny unless isCommandAllowed(command); then
\* execAsync(command, { timeout: 30000 }); a rejection is caught and
\* returned as 'Command failed: <message>'.
run_command(command, execOutcome) ==
    /\ phase = "listening"
    /\ ran = NoRun
    /\ \E allowed \in {isCommandAllowed(command)} :
         ran' = [tool |-> "run_command", input |-> command,
                 allowed |-> allowed, checked |-> Trim(command),
                 ops |-> IF allowed
                         THEN <<[op |-> "exec", target |-> command,
                                 timeout |-> 30000]>>
                         ELSE <<>>,
                 isError |-> ~allowed \/ execOutcome # "exits",
                 outcome |-> IF allowed THEN execOutcome ELSE ""]
    /\ UNCHANGED <<phase, MCP_TOKEN, transports, tr, serverTransport, issued,
                   inflight, last, toolRegistry, regLog, called,
                   ALLOWED_PATHS>>

\* The values a caller can send as a get_processes argument: nothing, a
\* number, or a string (the handler's casts check nothing at run time).
Arg(type, n, s) == [type |-> type, n |-> n, s |-> s]

LimitArgs ==
    { Arg("undefined", 0, <<>>), Arg("number", 0, <<>>),
      Arg("number", 5, <<>>), Arg("string", 0, <<>>),
      Arg("string", 0, <<"5">>),
      Arg("string", 0, <<"1", ";", " ", "rm", " ", "-rf", " ", "/", " ",
                         "#">>) }

SortByArgs ==
    { Arg("undefined", 0, <<>>), Arg("string", 0, <<"cpu">>),
      Arg("string", 0, <<"memory">>),
      Arg("string", 0, <<";", " ", "rm", " ", "-rf", " ", "/">>),
      Arg("number", 7, <<>>) }

\* value || fallback: undefined, 0 and '' are falsy.
Falsy(arg) ==
    \/ arg.type = "undefined"
    \/ arg.type = "number" /\ arg.n = 0
    \/ arg.type = "string" /\ arg.s = <<>>

\* `${limit + 1}`: a number is incremented, a string gets '1' appended.
limitPlusOne(limit) ==
    IF limit.type = "number" THEN <<ToString(limit.n + 1)>>
    ELSE limit.s \o <<"1">>

\* get_processes: limit = args.limit || 20, sortBy = args.sortBy || 'cpu';
\* execAsync(`ps aux ${sortFlag} | head -n ${limit + 1}`, { timeout: 10000 }).
get_processes(limitArg, sortByArg, execOutcome) ==
    /\ phase = "listening"
    /\ ran = NoRun
    /\ LET limit == IF Falsy(limitArg) THEN Arg("number", 20, <<>>)
                    ELSE limitArg
           sortBy == IF Falsy(sortByArg) THEN Arg("string", 0, <<"cpu">>)
                     ELSE sortByArg
           sortFlag == IF sortBy.type = "string" /\ sortBy.s = <<"memory">>
                       THEN "--sort=-%mem" ELSE "--sort=-%cpu"
       IN ran' = [tool |-> "get_processes", input |-> limitArg.s,
                  allowed |-> TRUE, checked |-> <<>>,
                  ops |-> <<[op |-> "exec",
                             target |-> <<"ps", " ", "aux", " ", sortFlag,
                                          " ", "|", " ", "head", " ", "-n",
                                          " ">> \o limitPlusOne(limit),
                             timeout |-> 10000]>>,
                  isError |-> execOutcome # "exits",
                  outcome |-> execOutcome]
    /\ UNCHANGED <<phase, MCP_TOKEN, transports, tr, serverTransport, issued,
                   inflight, last, toolRegistry, regLog, called,
                   ALLOWED_PATHS>>

\* get_disk_usage: execAsync('df -h', { timeout: 10000 }).
get_disk_usage(execOutcome) ==
    /\ phase = "listening"
    /\ ran = NoRun
    /\ ran' = [tool |-> "get_disk_usage", input |-> <<>>,
               allowed |-> TRUE, checked |-> <<>>,
               ops |-> <<[op |-> "exec", target |-> <<"df", " ", "-h">>,
                          timeout |-> 10000]>>,
               isError |-> execOutcome # "exits",
               outcome |-> execOutcome]
    /\ UNCHANGED <<phase, MCP_TOKEN, transports, tr, serverTransport, issued,
                   inflight, last, toolRegistry, regLog, called,
                   ALLOWED_PATHS>>

\* get_system_info: os.* values, the thermal file, then
\* execAsync('vcgencmd measure_volts core', { timeout: 5000 }) inside a
\* try whose catch is empty; the result is never flagged as an error.
get_system_info(execOutcome) ==
    /\ phase = "listening"
    /\ ran = NoRun
    /\ ran' = [tool |-> "get_system_info", input |-> <<>>,
               allowed |-> TRUE, checked |-> <<>>,
               ops |-> <<[op |-> "exec",
                          target |-> <<"vcgencmd", " ", "measure_volts",
                                       " ", "core">>,
                          timeout |-> 5000]>>,
               isError |-> FALSE,
               outcome |-> execOutcome]
    /\ UNCHANGED <<phase, MCP_TOKEN, transports, tr, serverTransport, issued,
                   inflight, last, toolRegistry, regLog, called,
                   ALLOWED_PATHS>>

\* --------------------------------------------------------- database tools
\* Longest generated query string, in chunks.
MaxQueryLen == 3

\* String.prototype.toLowerCase, chunk by chunk.
LowerChunk(c) ==
    CASE c = "SELECT" -> "select"
      [] c = "FROM" -> "from"
      [] c = "DROP" -> "drop"
      [] c = "TABLE" -> "table"
      [] c = "LIMIT" -> "limit"
      [] c = "Create" -> "create"
      [] OTHER -> c

toLowerCase(s) == [i \in 1 .. Len(s) |-> LowerChunk(s[i])]

forbidden ==
    << <<"insert">>, <<"update">>, <<"delete">>, <<"drop">>, <<"alter">>,
       <<"create">>, <<"attach">>, <<"detach">> >>

\* The first forbidden word the normalised query includes (0: none).
firstForbidden(normalized) ==
    LET hits == {i \in 1 .. Len(forbidden) : Includes(normalized, forbidden[i])}
    IN IF hits = {} THEN 0 ELSE CHOOSE i \in hits : \A j \in hits : i <= j

\* A mutated filter that looks at the leading keyword only.
queryAllowedLeadingOnly(query) ==
    StartsWith(toLowerCase(query), <<"select">>)

\* The query filter of query_sqlite: the lower-cased trimmed query starts
\* with 'select' and includes no forbidden word.
queryAllowed(query) ==
    LET normalized == toLowerCase(query)
    IN StartsWith(normalized, <<"select">>) /\ firstForbidden(normalized) = 0

\* Math.min((args.limit as number) || 100, 1000).
queryLimit(limitArg) ==
    LET given == IF limitArg = 0 THEN 100 ELSE limitArg
    IN IF given < 1000 THEN given ELSE 1000

QueryChunks == {"SELECT", "select", " ", "t", "update", "limit"}

CandidateQueries ==
    UNION {[1 .. n -> QueryChunks] : n \in 0 .. MaxQueryLen}
    \cup { <<"SELECT", " ", "*", " ", "FROM", " ", "t">>,
           <<"select", " ", "*", " ", "from", " ", "t", ";", " ",
             "DROP", " ", "TABLE", " ", "t">>,
           <<"update", " ", "t", " ", "set", " ", "x=1">>,
           <<"SELECT", " ", "update", "d_at", " ", "FROM", " ", "t">>,
           <<"SELECT", " ", "'", "Create", "d", "'", " ", "FROM", " ", "t">>,
           <<" ", "SELECT", " ", "*", " ", "FROM", " ", "t", " ",
             "LIMIT", " ", "5", " ">>,
           <<"DROP", " ", "TABLE", " ", "t">>,
           <<"SELECT", " ", "*", " ", "FROM", " ", "limit", "s">>,
           <<"SELECT", " ", "*", " ", "FROM", " ", "t", " ", "LIMIT", " ",
             "5000">> }

\* What the database holds and what SQLite does with a LIMIT clause: a
\* statement ending in LIMIT n returns at most n rows, a negative n being
\* no limit; without such a clause every row is returned.
TableRowCounts == {0, 150, 2000}

Numerals == {-1, 5, 100, 1000, 5000}

Unlimited == -1

clauseLimit(stmt) ==
    IF /\ Len(stmt) >= 4
       /\ LowerChunk(stmt[Len(stmt) - 2]) = "limit"
       /\ \E n \in Numerals : ToString(n) = stmt[Len(stmt)]
    THEN CHOOSE n \in Numerals : ToString(n) = stmt[Len(stmt)]
    ELSE Unlimited

rowsReturned(stmt, tableRows) ==
    LET n == clauseLimit(stmt)
    IN IF n < 0 \/ tableRows < n THEN tableRows ELSE n

\* query_sqlite: openDatabase() first (null without DB_PATH or file); then
\* (args.query as string).trim(), a TypeError when the argument is missing;
\* the filter on the trimmed query; then db.prepare(finalQuery).all() and,
\* in finally, db.close().  The throw and the two denials happen before
\* the try and leave the handle open.
query_sqlite(rawQuery, hasQuery, limitArg, dbAvailable, stmtOk, tableRows) ==
    /\ phase = "listening"
    /\ ran = NoRun
    /\ \E query \in {IF hasQuery THEN Trim(rawQuery) ELSE <<>>} :
         LET normalized == toLowerCase(query)
             allowed == hasQuery /\ queryAllowed(query)
             finalQuery ==
                 IF Includes(normalized, <<"limit">>) THEN query
                 ELSE query \o <<" ", "LIMIT", " ",
                                 ToString(queryLimit(limitArg))>>
         IN ran' = [tool |-> "query_sqlite",
                    input |-> IF hasQuery THEN rawQuery ELSE <<>>,
                    allowed |-> dbAvailable /\ allowed,
                    checked |-> IF dbAvailable THEN normalized ELSE <<>>,
                    ops |-> IF ~dbAvailable THEN <<>>
                            ELSE IF ~allowed
                            THEN <<[op |-> "open", target |-> <<"DB_PATH">>]>>
                            ELSE <<[op |-> "open", target |-> <<"DB_PATH">>],
                                   [op |-> "prepare", target |-> finalQuery],
                                   [op |-> "close", target |-> <<"DB_PATH">>]>>,
                    isError |-> ~dbAvailable \/ ~allowed \/ ~stmtOk,
                    threw |-> dbAvailable /\ ~hasQuery,
                    limit |-> limitArg,
                    rows |-> IF dbAvailable /\ allowed /\ stmtOk
                             THEN rowsReturned(finalQuery, tableRows)
                             ELSE 0]
    /\ UNCHANGED <<phase, MCP_TOKEN, transports, tr, serverTransport, issued,
                   inflight, last, toolRegistry, regLog, called,
                   ALLOWED_PATHS>>

\* list_tables: openDatabase(); inside try the sqlite_master query and a
\* PRAGMA table_info per table; db.close() in finally.
list_tables(dbAvailable, stmtOk) ==
    /\ phase = "listening"
    /\ ran = NoRun
    /\ ran' = [tool |-> "list_tables", input |-> <<>>,
               allowed |-> dbAvailable, checked |-> <<>>,
               ops |-> IF ~dbAvailable THEN <<>>
                       ELSE <<[op |-> "open", target |-> <<"DB_PATH">>],
                              [op |-> "prepare",
                               target |-> <<"sqlite_master">>],
                              [op |-> "close", target |-> <<"DB_PATH">>]>>,
               isError |-> ~dbAvailable \/ ~stmtOk,
               threw |-> FALSE]
    /\ UNCHANGED <<phase, MCP_TOKEN, transports, tr, serverTransport, issued,
                   inflight, last, toolRegistry, regLog, called,
                   ALLOWED_PATHS>>

\* Table names: identifiers and strings the pattern
\* /^[a-zA-Z_][a-zA-Z0-9_]*$/ rejects.  A missing argument is tested as
\* the text 'undefined', which the pattern accepts.
TableNames ==
    { <<"t">>, <<"_", "t", "1">>, <<"undefined">>, <<>>, <<"1", "t">>,
      <<"t", "\"", ";">>, <<"t", " ">> }

IdentStart == {"t", "_", "undefined"}
IdentPart == {"t", "_", "undefined", "1"}

validTableName(tableName) ==
    /\ tableName # <<>>
    /\ tableName[1] \in IdentStart
    /\ \A i \in 2 .. Len(tableName) : tableName[i] \in IdentPart

\* get_table_schema: openDatabase(); an invalid table name returns before
\* the try, leaving the handle open; otherwise the PRAGMA and COUNT
\* statements inside try (an unknown table returns from inside it) and
\* db.close() in finally.
get_table_schema(tableName, dbAvailable, found, stmtOk) ==
    /\ phase = "listening"
    /\ ran = NoRun
    /\ \E valid \in {validTableName(tableName)} :
         ran' = [tool |-> "get_table_schema", input |-> tableName,
                 allowed |-> dbAvailable /\ valid, checked |-> tableName,
                 ops |-> IF ~dbAvailable THEN <<>>
                         ELSE IF ~valid
                         THEN <<[op |-> "open", target |-> <<"DB_PATH">>]>>
                         ELSE <<[op |-> "open", target |-> <<"DB_PATH">>],
                                [op |-> "prepare",
                                 target |-> <<"PRAGMA table_info(\"">>
                                            \o tableName \o <<"\")">>],
                                [op |-> "close", target |-> <<"DB_PATH">>]>>,
                 isError |-> ~dbAvailable \/ ~valid \/ ~found \/ ~stmtOk,
                 threw |-> FALSE]
    /\ UNCHANGED <<phase, MCP_TOKEN, transports, tr, serverTransport, issued,
                   inflight, last, toolRegistry, regLog, called,
                   ALLOWED_PATHS>>

\* --------------------------------------------------------- Obsidian tools
\* process.env.OBSIDIAN_VAULT_PATH.
vaultPath == <<"/", "vault">>

\* path.join(a, b) for a rooted a and any text b: the normalised
\* a + '/' + b.
pathJoinUnder(a, b) ==
    <<"/">> \o JoinWith(normalizeSegments(SplitBy(a \o <<"/">> \o b, "/"),
                                          1, <<>>), "/")

\* folder arguments of list_notes and note arguments of read_note.
FolderArgs ==
    { <<>>, <<"sub">>, <<".", ".">>, <<".", ".", "/", "etc">>,
      <<".", ".", "/", "vault", "-private">>,
      <<"sub", "/", ".", ".", "/", "sub">> }

NoteArgs ==
    { <<"n">>, <<"sub", "/", "n", ".md">>,
      <<".", ".", "/", "etc", "/", "passwd">>,
      <<".", ".", "/", "vault", "-private", "/", "n">>,
      <<"sub", "/", ".", ".", "/", "n">> }

\* list_notes: searchPath = path.join(vaultPath, folder); scanDir reads
\* it and, with includeMetadata, the notes found in it.  notes are the
\* names of the .md files in the directory.
list_notes(folder, includeMetadata, vaultAvailable, notes) ==
    /\ phase = "listening"
    /\ ran = NoRun
    /\ \E searchPath \in {pathJoinUnder(vaultPath, folder)} :
         ran' = [tool |-> "list_notes", input |-> folder,
                 allowed |-> vaultAvailable, checked |-> <<>>,
                 ops |-> IF ~vaultAvailable THEN <<>>
                         ELSE <<[op |-> "readdir", target |-> searchPath]>>
                              \o (IF includeMetadata
                                  THEN [i \in 1 .. Len(notes) |->
                                          [op |-> "readFile",
                                           target |-> pathJoin(searchPath,
                                                               notes[i])]]
                                  ELSE <<>>),
                 isError |-> ~vaultAvailable]
    /\ UNCHANGED <<phase, MCP_TOKEN, transports, tr, serverTransport, issued,
                   inflight, last, toolRegistry, regLog, called,
                   ALLOWED_PATHS>>

\* read_note: '.md' is appended unless the argument ends with it;
\* fullPath = path.join(vaultPath, notePath); denied unless
\* path.resolve(fullPath).startsWith(path.resolve(vaultPath)); then
\* fs.readFile(fullPath).
read_note(note, vaultAvailable, fsOk) ==
    /\ phase = "listening"
    /\ ran = NoRun
    /\ LET notePath == IF note # <<>> /\ note[Len(note)] = ".md" THEN note
                       ELSE note \o <<".md">>
           fullPath == pathJoinUnder(vaultPath, notePath)
           resolved == pathResolve(fullPath)
           inside == StartsWith(resolved, pathResolve(vaultPath))
       IN ran' = [tool |-> "read_note", input |-> note,
                  allowed |-> vaultAvailable /\ inside,
                  checked |-> IF vaultAvailable THEN resolved ELSE <<>>,
                  ops |-> IF vaultAvailable /\ inside
                          THEN <<[op |-> "readFile", target |-> fullPath]>>
                          ELSE <<>>,
                  isError |-> ~vaultAvailable \/ ~inside \/ ~fsOk]
    /\ UNCHANGED <<phase, MCP_TOKEN, transports, tr, serverTransport, issued,
                   inflight, last, toolRegistry, regLog, called,
                   ALLOWED_PATHS>>

\* searchDir(vaultPath) of search_notes and get_backlinks: it reads the
\* vault directory and the notes found in it; the caller's query or note
\* name is only compared with file contents.
scan_vault(tool, vaultAvailable, notes) ==
    /\ phase = "listening"
    /\ ran = NoRun
    /\ ran' = [tool |-> tool, input |-> <<>>,
               allowed |-> vaultAvailable, checked |-> <<>>,
               ops |-> IF ~vaultAvailable THEN <<>>
                       ELSE <<[op |-> "readdir", target |-> vaultPath]>>
                            \o [i \in 1 .. Len(notes) |->
                                   [op |-> "readFile",
                                    target |-> pathJoin(vaultPath, notes[i])]],
               isError |-> ~vaultAvailable]
    /\ UNCHANGED <<phase, MCP_TOKEN, transports, tr, serverTransport, issued,
                   inflight, last, toolRegistry, regLog, called,
                   ALLOWED_PATHS>>

\* search_notes: searchDir(vaultPath), matching lines against the query.
search_notes(vaultAvailable, notes) ==
    scan_vault("search_notes", vaultAvailable, notes)

\* get_backlinks: searchDir(vaultPath), looking for links to the note.
get_backlinks(vaultAvailable, notes) ==
    scan_vault("get_backlinks", vaultAvailable, notes)

\* ------------------------------------------------- tool specification
\* The policy-checked tool handlers on their own, called in any order with
\* any argument, under each configuration of the allowlist.
ToolInit ==
    /\ phase = "listening"
    /\ MCP_TOKEN = Secret
    /\ transports = <<>>
    /\ tr = <<>>
    /\ serverTransport = 0
    /\ issued = 0
    /\ inflight = <<>>
    /\ last = NoStep
    /\ regLog = BootRegistrations
    /\ toolRegistry = BootRegistry
    /\ called = NoCall
    /\ ALLOWED_PATHS \in AllowedPathsValues
    /\ ran = NoRun

\* The handler's result has gone back to the caller; the next call starts.
ToolDone ==
    /\ ran # NoRun
    /\ ran' = NoRun
    /\ UNCHANGED <<phase, MCP_TOKEN, transports, tr, serverTransport, issued,
                   inflight, last, toolRegistry, regLog, called,
                   ALLOWED_PATHS>>

\* A tools/call for one of the policy-checked tools, with its arguments.
ToolCall ==
    \/ \E filePath \in CandidatePaths, fsOk \in BOOLEAN :
          read_file(filePath, fsOk)
    \/ \E filePath \in CandidatePaths, mkdirOk \in BOOLEAN, fsOk \in BOOLEAN :
          write_file(filePath, mkdirOk, fsOk)
    \/ \E dirPath \in CandidatePaths, fsOk \in BOOLEAN :
          list_directory(dirPath, fsOk)
    \/ \E searchPath \in CandidatePaths, maxDepthArg \in {-1, 0, 1},
          subdirs \in {<<>>, << <<"sub">> >>} :
          search_files(searchPath, maxDepthArg, subdirs)
    \/ \E command \in CandidateCommands, execOutcome \in ExecOutcomes :
          run_command(command, execOutcome)
    \/ \E limitArg \in LimitArgs, sortByArg \in SortByArgs,
          execOutcome \in ExecOutcomes :
          get_processes(limitArg, sortByArg, execOutcome)
    \/ \E execOutcome \in ExecOutcomes : get_disk_usage(execOutcome)
    \/ \E execOutcome \in ExecOutcomes : get_system_info(execOutcome)
    \/ \E rawQuery \in CandidateQueries, hasQuery \in BOOLEAN,
          limitArg \in {-1, 0, 5, 2000}, dbAvailable \in BOOLEAN,
          stmtOk \in BOOLEAN, tableRows \in TableRowCounts :
          query_sqlite(rawQuery, hasQuery, limitArg, dbAvailable, stmtOk,
                       tableRows)
    \/ \E dbAvailable \in BOOLEAN, stmtOk \in BOOLEAN :
          list_tables(dbAvailable, stmtOk)
    \/ \E folder \in FolderArgs, includeMetadata \in BOOLEAN,
          vaultAvailable \in BOOLEAN, notes \in {<<>>, << <<"n", ".md">> >>} :
          list_notes(folder, includeMetadata, vaultAvailable, notes)
    \/ \E note \in NoteArgs, vaultAvailable \in BOOLEAN, fsOk \in BOOLEAN :
          read_note(note, vaultAvailable, fsOk)
    \/ \E vaultAvailable \in BOOLEAN, notes \in {<<>>, << <<"n", ".md">> >>} :
          search_notes(vaultAvailable, notes)
    \/ \E vaultAvailable \in BOOLEAN, notes \in {<<>>, << <<"n", ".md">> >>} :
          get_backlinks(vaultAvailable, notes)
    \/ \E tableName \in TableNames, dbAvailable \in BOOLEAN,
          found \in BOOLEAN, stmtOk \in BOOLEAN :
          get_table_schema(tableName, dbAvailable, found, stmtOk)

ToolNext ==
    \/ ToolDone
    \/ (ran = NoRun /\ ToolCall)

ToolSpec == ToolInit /\ [][ToolNext]_vars

\* A tool handler has run.
Ran == ran.tool # ""

FsTools == {"read_file", "write_file", "list_directory", "search_files"}

\* The configured string holds nothing but commas and whitespace.
OnlySeparators(paths) == \A i \in 1 .. Len(paths) : paths[i] \in {",", " "}

\* C15: with an empty allowlist (ALLOWED_PATHS unset, empty, or holding
\* only separators and whitespace) isPathAllowed denies every candidate
\* and the four filesystem tools perform no filesystem operation.
C15_EmptyAllowlistDenies ==
    OnlySeparators(ALLOWED_PATHS) =>
        /\ ~Ran => \A candidate \in CandidatePaths :
                       ~isPathAllowed(candidate, ALLOWED_PATHS)
        /\ (Ran /\ ran.tool \in FsTools) =>
              (~ran.allowed /\ ran.ops = <<>> /\ ran.isError)

\* A filesystem tool ran on an absolute path while ALLOWED_PATHS held only
\* separators and whitespace.
C15_Witness ==
    /\ ALLOWED_PATHS # <<>>
    /\ OnlySeparators(ALLOWED_PATHS)
    /\ Ran
    /\ ran.tool = "write_file"
    /\ ran.input = <<"/", "data">>
    /\ ran.ops = <<>>


\* A canonical absolute path: rooted, without empty, '.' or '..' segment
\* and without trailing slash.
IsCanonical(p) ==
    /\ p # <<>>
    /\ p[1] = "/"
    /\ p = <<"/">> \/
       \A seg \in {SplitBy(Tail(p), "/")[i] :
                       i \in 1 .. Len(SplitBy(Tail(p), "/"))} :
           seg \notin {<<>>, <<".">>, <<".", ".">>}

\* C16: isPathAllowed decides on the canonical absolute form of the
\* candidate.  With the allowlist "/data", /data/sub/file.txt is allowed
\* and /etc/passwd and /data/../etc/passwd are denied; and whenever a
\* filesystem tool's candidate is allowed, its canonical form starts with
\* the canonical form of an allowlist entry, the verdict being the one its
\* canonical form gets.
C16_DecidesOnCanonicalForm ==
    /\ ~Ran =>
        /\ isPathAllowed(<<"/", "data", "/", "sub", "/", "file.txt">>,
                         <<"/", "data">>)
        /\ ~isPathAllowed(<<"/", "etc", "/", "passwd">>, <<"/", "data">>)
        /\ ~isPathAllowed(<<"/", "data", "/", ".", ".", "/", "etc", "/",
                            "passwd">>, <<"/", "data">>)
    /\ (Ran /\ ran.tool \in FsTools) =>
        /\ IsCanonical(ran.checked)
        /\ ran.allowed = isPathAllowed(ran.checked, ALLOWED_PATHS)
        /\ ran.allowed =>
              \E i \in 1 .. Len(getAllowedPaths(ALLOWED_PATHS)) :
                  /\ IsCanonical(pathResolve(getAllowedPaths(ALLOWED_PATHS)[i]))
                  /\ StartsWith(ran.checked,
                         pathResolve(getAllowedPaths(ALLOWED_PATHS)[i]))

\* A candidate that starts with the allowlist entry as a raw string but
\* leaves it through '..' was denied.
C16_Witness ==
    /\ ALLOWED_PATHS = <<"/", "data">>
    /\ Ran
    /\ ran.tool = "read_file"
    /\ ran.input = <<"/", "data", "/", ".", ".", "/", "etc", "/", "passwd">>
    /\ ran.checked = <<"/", "etc", "/", "passwd">>
    /\ ~ran.allowed
    /\ ran.ops = <<>>


\* C17: isCommandAllowed allows a command iff, trimmed, it is a whitelist
\* entry or an entry followed by a space and anything: "df -h" is allowed,
\* "rm -rf /" and "dfx" are denied, and a run_command verdict is allowed
\* exactly when some entry is the whole trimmed command or is followed in
\* it by a space.
C17_CommandWhitelist ==
    /\ ~Ran =>
        /\ <<"df">> \in ALLOWED_COMMANDS /\ <<"uptime">> \in ALLOWED_COMMANDS
        /\ isCommandAllowed(<<"df", " ", "-h">>)
        /\ ~isCommandAllowed(<<"rm", " ", "-rf", " ", "/">>)
        /\ ~isCommandAllowed(<<"df", "x">>)
    /\ (Ran /\ ran.tool = "run_command") =>
        /\ ran.checked = Trim(ran.input)
        /\ ran.allowed <=>
              \E entry \in ALLOWED_COMMANDS :
                  /\ Len(entry) <= Len(ran.checked)
                  /\ \A i \in 1 .. Len(entry) : ran.checked[i] = entry[i]
                  /\ Len(ran.checked) > Len(entry) =>
                        ran.checked[Len(entry) + 1] = " "

\* A whitelisted command directly followed by other characters was denied
\* and not executed.
C17_Witness ==
    /\ Ran
    /\ ran.tool = "run_command"
    /\ ran.input = <<"df", "x">>
    /\ ~ran.allowed
    /\ ran.ops = <<>>


MutatingKeywords ==
    {"insert", "update", "delete", "drop", "alter", "create", "attach",
     "detach"}

\* The statements a query_sqlite run handed to db.prepare.
Submitted ==
    {ran.ops[i].target : i \in {j \in 1 .. Len(ran.ops) :
                                    ran.ops[j].op = "prepare"}}

\* C18: query_sqlite submits a statement to the database only if the
\* trimmed, lower-cased query begins with 'select' and contains none of
\* the mutating keywords anywhere.  "SELECT * FROM t" passes the filter;
\* "select * from t; DROP TABLE t", "update t set x=1" and a SELECT over a
\* column named updated_at do not.
C18_SelectOnly ==
    /\ ~Ran =>
        /\ queryAllowed(<<"SELECT", " ", "*", " ", "FROM", " ", "t">>)
        /\ ~queryAllowed(<<"select", " ", "*", " ", "from", " ", "t", ";",
                           " ", "DROP", " ", "TABLE", " ", "t">>)
        /\ ~queryAllowed(<<"update", " ", "t", " ", "set", " ", "x=1">>)
        /\ ~queryAllowed(<<"SELECT", " ", "update", "d_at", " ", "FROM",
                           " ", "t">>)
    /\ (Ran /\ ran.tool = "query_sqlite" /\ Submitted # {}) =>
        LET text == toLowerCase(Trim(ran.input))
        IN /\ text # <<>>
           /\ text[1] = "select"
           /\ \A i \in 1 .. Len(text) : text[i] \notin MutatingKeywords
           /\ \A stmt \in Submitted : StartsWith(stmt, Trim(ran.input))

\* A SELECT was submitted, and a SELECT followed by a DROP was not.
C18_Witness ==
    /\ Ran
    /\ ran.tool = "query_sqlite"
    /\ ran.input = <<"SELECT", " ", "*", " ", "FROM", " ", "t">>
    /\ Submitted = {<<"SELECT", " ", "*", " ", "FROM", " ", "t", " ",
                      "LIMIT", " ", "100">>}

\* The database was available and the query named a mutating keyword
\* after a leading select: nothing was submitted.
C18_DeniedWitness ==
    /\ Ran
    /\ ran.tool = "query_sqlite"
    /\ ran.checked # <<>>
    /\ ran.checked[1] = "select"
    /\ Includes(ran.checked, <<"drop">>)
    /\ Submitted = {}


\* C19: without MCP_TOKEN the process exits before the listener starts:
\* in no reachable state is the server listening, or a request being
\* handled, while no expected token is configured.
C19_NoListenerWithoutToken ==
    (MCP_TOKEN = <<>>) =>
        /\ phase \in {"boot", "exited"}
        /\ last.step = "none"
        /\ inflight = <<>>
        /\ transports = <<>>

\* The process started without MCP_TOKEN and has exited.
C19_Witness == MCP_TOKEN = <<>> /\ phase = "exited"


PolicyTools ==
    {"read_file", "write_file", "list_directory", "search_files",
     "run_command", "query_sqlite"}

\* The underlying operations of a run that act on the caller's target
\* (opening and closing the configured database file are not among them).
TargetOps ==
    {i \in 1 .. Len(ran.ops) : ran.ops[i].op \notin {"open", "close"}}

\* The first operation of each run: the one handed the candidate itself.
\* (write_file's mkdir gets the candidate's directory, search_files' later
\* readdirs the entries found below the candidate.)
PrimaryOps ==
    {i \in TargetOps :
        /\ ran.ops[i].op # "mkdir"
        /\ \A j \in TargetOps : j < i => ran.ops[j].op = "mkdir"}

\* C14: in the six policy-checked tools the underlying operation runs only
\* after the policy check allowed, and on the exact resolved target the
\* check approved rather than the caller's raw string; after a denial no
\* underlying operation runs at all.
C14_OperatesOnApprovedTarget ==
    (Ran /\ ran.tool \in PolicyTools) =>
        /\ ~ran.allowed => TargetOps = {}
        /\ \A i \in PrimaryOps :
              ran.ops[i].target = ran.checked

\* The part of C14 that holds: an operation on the caller's target runs
\* only in a run whose policy check allowed.
C14_CheckedFirst ==
    (Ran /\ ran.tool \in PolicyTools /\ TargetOps # {}) => ran.allowed

\* read_file was allowed on a path with a '..' segment and read the raw
\* string, not the resolved path the check approved.
C14_RawTargetWitness ==
    /\ Ran
    /\ ran.tool = "read_file"
    /\ ran.allowed
    /\ ran.input = <<"/", "data", "/", "link", "/", ".", ".", "/", "file.txt">>
    /\ ran.checked = <<"/", "data", "/", "file.txt">>
    /\ ran.ops = <<[op |-> "readFile", target |-> ran.input]>>


\* The limit a caller asked for: 100 when the argument is omitted.
requestedLimit(limitArg) == IF limitArg = 0 THEN 100 ELSE limitArg

\* C21: for every accepted query and every limit argument the number of
\* rows query_sqlite returns is at most the requested limit (100 when
\* omitted) and never more than 1000.
C21_RowsBounded ==
    (Ran /\ ran.tool = "query_sqlite" /\ ~ran.isError) =>
        /\ ran.rows <= 1000
        /\ ran.limit >= 0 => ran.rows <= requestedLimit(ran.limit)

\* The part of C21 that holds: when the handler appended its own LIMIT
\* clause for a non-negative limit argument, the rows are bounded.
C21_BoundedWhenAppended ==
    (Ran /\ ran.tool = "query_sqlite" /\ ~ran.isError /\ ran.limit >= 0
         /\ ~Includes(ran.checked, <<"limit">>)) =>
        /\ ran.rows <= 1000
        /\ ran.rows <= requestedLimit(ran.limit)

\* A SELECT over a table whose name contains 'limit' returned every row.
C21_UnboundedWitness ==
    /\ Ran
    /\ ran.tool = "query_sqlite"
    /\ ran.input = <<"SELECT", " ", "*", " ", "FROM", " ", "limit", "s">>
    /\ ran.limit = 5
    /\ ran.rows = 2000


\* C22: GET /health is answered ok whatever the Authorization header is,
\* absent, wrong or correct, and the step neither reads nor changes the
\* session map, the transports or the requests in flight.
C22_HealthExempt ==
    (last.step = "health" /\ last.method = "GET") =>
        /\ last.status = 200
        /\ last.text = "ok"
        /\ ~last.lookup
        /\ MapUnchanged

\* GET /health with a wrong token was answered while a session existed.
C22_Witness ==
    /\ last.step = "health"
    /\ last.method = "GET"
    /\ last.auth = <<"Bearer", " ", "s">>
    /\ last.status = 200
    /\ transports # <<>>


DbTools == {"list_tables", "query_sqlite", "get_table_schema"}

OpCount(kind) ==
    Cardinality({i \in 1 .. Len(ran.ops) : ran.ops[i].op = kind})

\* C23: every database handle a list_tables, query_sqlite or
\* get_table_schema invocation opened is closed when the invocation
\* returns, on every exit path.
C23_HandleClosed ==
    (Ran /\ ran.tool \in DbTools) => OpCount("open") = OpCount("close")

\* The part of C23 that holds: list_tables closes its handle on every
\* path, and the other two do once the statement has been prepared.
C23_ClosedAfterTry ==
    (Ran /\ ran.tool \in DbTools
         /\ (ran.tool = "list_tables" \/ OpCount("prepare") > 0)) =>
        OpCount("open") = OpCount("close")

\* query_sqlite denied a non-SELECT statement and returned with the
\* handle it had opened still open.
C23_LeakWitness ==
    /\ Ran
    /\ ran.tool = "query_sqlite"
    /\ ran.input = <<"DROP", " ", "TABLE", " ", "t">>
    /\ ~ran.allowed
    /\ OpCount("open") = 1
    /\ OpCount("close") = 0


\* C24: the step that issues a new session identifier leaves it recorded
\* in the session map under its own transport; every identifier issued so
\* far is in the map unless its session has been closed; so a teardown
\* request bearing an issued, still open identifier finds the mapping,
\* reaches that session's transport and closes it.
C24_RecordedWhenIssued ==
    /\ last.newSid # 0 =>
          /\ MapHas(transports, last.newSid)
          /\ tr[transports[last.newSid]].sessionId = last.newSid
          /\ ~MapHas(last.mapBefore, last.newSid)
    /\ \A id \in 1 .. issued : MapHas(transports, id) \/ id \in ClosedIds
    /\ (Stepped /\ last.accepted /\ last.method = "DELETE"
          /\ last.sid \in 1 .. issued /\ MapHas(last.mapBefore, last.sid)) =>
             /\ last.lookup
             /\ last.branch = "reuse"
             /\ tr[last.t].sessionId = last.sid
             /\ last.status = 200

\* A teardown request for the identifier issued last found the mapping.
C24_Witness ==
    /\ Stepped /\ last.accepted
    /\ last.method = "DELETE"
    /\ issued >= 1
    /\ last.sid = issued
    /\ MapHas(last.mapBefore, last.sid)
    /\ last.branch = "reuse"
    /\ last.status = 200

\* Identifiers of the sessions that are initialized and not closed.
LiveIds ==
    {tr[t].sessionId : t \in {u \in 1 .. Len(tr) :
                                 ~tr[u].closed /\ tr[u].sessionId # 0}}

\* C25: in every reachable state the session map holds exactly the
\* identifiers of the sessions that are initialized and not closed, each
\* stored with the transport whose own identifier is the key; and a step
\* removes from the map at most the entry of the session it closed.
C25_MapIsLiveSessions ==
    /\ DOMAIN transports = LiveIds
    /\ \A k \in DOMAIN transports :
          /\ transports[k] \in 1 .. Len(tr)
          /\ tr[transports[k]].sessionId = k
    /\ last.step \notin {"none", "health"} =>
          \A k \in (DOMAIN last.mapBefore) \ (DOMAIN transports) :
              k = last.sid /\ k \in ClosedIds

\* One session was closed while another one stayed in the map.
C25_Witness ==
    /\ Stepped
    /\ last.method = "DELETE"
    /\ last.sid \in ClosedIds
    /\ MapHas(last.mapBefore, last.sid)
    /\ ~MapHas(transports, last.sid)
    /\ DOMAIN transports # {}


SystemTools ==
    {"run_command", "get_processes", "get_disk_usage", "get_system_info"}

\* The command lines a system tool run handed to exec, with their timeouts.
Execs == {ran.ops[i] : i \in {j \in 1 .. Len(ran.ops) : ran.ops[j].op = "exec"}}

\* exec runs its command line through /bin/sh: the control operators
\* ';', '|' and '&&' separate simple commands, and the first word of each
\* is a program the shell starts.
ShellOperators == {";", "|", "&&"}

RECURSIVE simpleCommands(_, _, _, _)
simpleCommands(line, i, cur, acc) ==
    IF i > Len(line) THEN acc \cup {Trim(cur)}
    ELSE IF line[i] \in ShellOperators
    THEN simpleCommands(line, i + 1, <<>>, acc \cup {Trim(cur)})
    ELSE simpleCommands(line, i + 1, Append(cur, line[i]), acc)

programsRun(line) ==
    {c[1] : c \in {d \in simpleCommands(line, 1, <<>>, {}) : d # <<>>}}

AllowedPrograms == {entry[1] : entry \in ALLOWED_COMMANDS}

\* C26: a command string run_command accepted makes the shell run
\* whitelisted programs only.
C26_OnlyWhitelistedPrograms ==
    (Ran /\ ran.tool = "run_command") =>
        \A e \in Execs : programsRun(e.target) \subseteq AllowedPrograms

\* The part of C26 that holds: the first program of an accepted command
\* line is a whitelisted one.
C26_FirstProgramWhitelisted ==
    (Ran /\ ran.tool = "run_command") =>
        \A e \in Execs : Trim(e.target)[1] \in AllowedPrograms

\* run_command accepted a whitelisted command followed by ';' and another
\* program and handed the whole line to the shell.
C26_InjectionWitness ==
    /\ Ran
    /\ ran.tool = "run_command"
    /\ ran.allowed
    /\ \E e \in Execs : "rm" \in programsRun(e.target)

SortFlags == {"--sort=-%mem", "--sort=-%cpu"}

\* The command line of get_processes up to the row count.
PsPrefix(flag) ==
    <<"ps", " ", "aux", " ", flag, " ", "|", " ", "head", " ", "-n", " ">>

\* C27: every command line a system tool hands to exec is a fixed constant
\* or a caller string that passed isCommandAllowed; the command line of
\* get_processes is the fixed pipeline with one of the two sort flags and
\* a number, whatever the limit and sortBy arguments are.
C27_NoCallerTextInCommandLine ==
    (Ran /\ ran.tool \in SystemTools) =>
        \A e \in Execs :
            CASE ran.tool = "run_command" -> isCommandAllowed(e.target)
              [] ran.tool = "get_disk_usage" -> e.target = <<"df", " ", "-h">>
              [] ran.tool = "get_system_info" ->
                    e.target = <<"vcgencmd", " ", "measure_volts", " ", "core">>
              [] ran.tool = "get_processes" ->
                    \E flag \in SortFlags, n \in 1 .. 21 :
                        e.target = PsPrefix(flag) \o <<ToString(n)>>

\* The part of C27 that holds: the sortBy argument only selects one of the
\* two fixed flags.
C27_SortByIsSafe ==
    (Ran /\ ran.tool = "get_processes") =>
        \A e \in Execs :
            \E flag \in SortFlags : StartsWith(e.target, PsPrefix(flag))

\* get_processes put the text of a string-valued limit argument into the
\* command line.
C27_InjectionWitness ==
    /\ Ran
    /\ ran.tool = "get_processes"
    /\ \E e \in Execs : "rm" \in programsRun(e.target)

\* C30: every subprocess a tool starts has an explicit time bound, and
\* when the bound expires the invocation completes reporting a failure.
C30_TimeoutReported ==
    (Ran /\ ran.tool \in SystemTools) =>
        /\ \A e \in Execs : e.timeout > 0
        /\ (Execs # {} /\ ran.outcome = "timeout") => ran.isError

\* The part of C30 that holds: every exec has a bound of at most 30 s, and
\* run_command, get_processes and get_disk_usage report its expiry.
C30_BoundedExec ==
    (Ran /\ ran.tool \in SystemTools) =>
        /\ \A e \in Execs : e.timeout > 0 /\ e.timeout <= 30000
        /\ (Execs # {} /\ ran.outcome = "timeout"
               /\ ran.tool # "get_system_info") => ran.isError

\* get_system_info's subprocess timed out and the result carried no error.
C30_SilentTimeoutWitness ==
    /\ Ran
    /\ ran.tool = "get_system_info"
    /\ ran.outcome = "timeout"
    /\ ~ran.isError


\* A resolved path is the directory dir or lies beneath it.
Beneath(resolved, dir) ==
    \/ resolved = dir
    \/ dir = <<"/">>
    \/ StartsWith(resolved, dir \o <<"/">>)

\* C28: isPathAllowed allows a candidate only if its resolved path is a
\* configured allowed directory or lies beneath one in the directory tree;
\* a sibling whose name merely starts with the allowed directory's name is
\* denied.
C28_WithinAllowedTree ==
    (Ran /\ ran.tool \in FsTools /\ ran.allowed) =>
        \E i \in 1 .. Len(getAllowedPaths(ALLOWED_PATHS)) :
            Beneath(ran.checked, pathResolve(getAllowedPaths(ALLOWED_PATHS)[i]))

\* With only /data allowed, a file in the sibling directory /database was
\* read.
C28_SiblingWitness ==
    /\ ALLOWED_PATHS = <<"/", "data">>
    /\ Ran
    /\ ran.tool = "read_file"
    /\ ran.input = <<"/", "data", "base", "/", "x">>
    /\ ran.allowed
    /\ ran.ops # <<>>


ObsidianTools == {"list_notes", "read_note", "search_notes", "get_backlinks"}

\* C29: every file or directory an Obsidian tool reads is the vault root
\* or lies beneath it, for every folder or note argument.
C29_ReadsInsideVault ==
    (Ran /\ ran.tool \in ObsidianTools) =>
        \A i \in 1 .. Len(ran.ops) :
            Beneath(pathResolve(ran.ops[i].target), pathResolve(vaultPath))

\* The part of C29 that holds: search_notes and get_backlinks stay inside
\* the vault, and read_note reads nothing whose resolved path does not
\* start with the vault's path.
C29_ScansInsideVault ==
    /\ (Ran /\ ran.tool \in {"search_notes", "get_backlinks"}) =>
          \A i \in 1 .. Len(ran.ops) :
              Beneath(pathResolve(ran.ops[i].target), pathResolve(vaultPath))
    /\ (Ran /\ ran.tool = "read_note") =>
          \A i \in 1 .. Len(ran.ops) :
              StartsWith(pathResolve(ran.ops[i].target), pathResolve(vaultPath))

\* list_notes with the folder '../etc' read the directory /etc.
C29_EscapeWitness ==
    /\ Ran
    /\ ran.tool = "list_notes"
    /\ ran.input = <<".", ".", "/", "etc">>
    /\ ran.ops # <<>>
    /\ ran.ops[1].target = <<"/", "etc">>

\* read_note read a note of the sibling directory /vault-private.
C29_SiblingWitness ==
    /\ Ran
    /\ ran.tool = "read_note"
    /\ ran.allowed
    /\ ran.ops = <<[op |-> "readFile",
                    target |-> <<"/", "vault", "-private", "/", "n", ".md">>]>>
====
